---- MODULE Spec2Model ----
(***************************************************************************)
(* box.py: a progressive Monte Carlo path tracer of a five-plane box.      *)
(*                                                                         *)
(* Numbers.  The program computes in f32.  The model computes in fixed     *)
(* point with rounding to nearest: positions and distances in units of     *)
(* 1/PosScale, directions, normals and sphere points in units of           *)
(* 1/DirScale.  A float NaN (0/0 in ti.normalized) is the value NaNVec;    *)
(* every comparison with it is false, as in IEEE arithmetic.               *)
(* Colours are kept exact: a colour is a sum (a bag) of products of the    *)
(* scene's albedos and the light colour, each product a tuple of exponents.*)
(***************************************************************************)
EXTENDS Integers, Sequences, FiniteSets, Bags, TLC

(* ------------------------------ bounds -------------------------------- *)
\* sz = 800 and res = (800, 800) in the program; the model renders sz x sz
\* pixels.
sz == 2
\* range(5000000) in the program; the model runs MaxFrames frames.
MaxFrames == 2
\* ti.random() draws from [0, 1); the model draws k/2 for the k below, that
\* is 0 and 1/2.
RandVals == {0, 1}
\* max_ray_depth = 10 in the program; the model bounds the bounces of a path
\* by a smaller number, and every statement about it is made for that number.
max_ray_depth == 3

(* ------------------------- program constants -------------------------- *)
res == <<sz, sz>>
PosScale == 10000
DirScale == 1000
\* eps = 1e-4 = 1/EpsInv
EpsInv == 10000
\* inf = 1e10 is above every distance a ray of the model produces; it is
\* kept as the largest value of the model's integers.
inf == 2147483647
\* fov = 0.8, in units of 1/DirScale
fov == 800

mat_none == 0
mat_lambertian == 1
mat_light == 2

camera_pos == <<0, 6000, 30000>>

(* ----------------------------- arithmetic ----------------------------- *)
Abs(a) == IF a < 0 THEN 0 - a ELSE a

\* a / b rounded to the nearest integer, halves away from zero (b # 0).
RoundDiv(a, b) ==
    LET q == (2 * Abs(a) + Abs(b)) \div (2 * Abs(b))
    IN  IF (a < 0) = (b < 0) THEN q ELSE 0 - q

RECURSIVE SqrtIter(_, _, _)
SqrtIter(x, lo, hi) ==
    IF hi - lo <= 1 THEN lo
    ELSE LET mid == (lo + hi) \div 2
         IN  IF mid * mid <= x THEN SqrtIter(x, mid, hi) ELSE SqrtIter(x, lo, mid)

\* floor of the square root of x, 0 <= x < 46340^2
ISqrt(x) == SqrtIter(x, 0, 46340)

\* square root rounded to nearest
Sqrt(x) == LET r == ISqrt(x) IN IF x - r * r > r THEN r + 1 ELSE r

NaNVec == << >>
IsNaN(v) == v = NaNVec

VAdd(a, b) == <<a[1] + b[1], a[2] + b[2], a[3] + b[3]>>
VSub(a, b) == <<a[1] - b[1], a[2] - b[2], a[3] - b[3]>>

\* ti.dot(a, b) with b a direction-like vector: the result has a's unit.
Dot(a, b) == RoundDiv(a[1] * b[1] + a[2] * b[2] + a[3] * b[3], DirScale)

\* ti.normalized(v) = v / v.norm(): 0/0 = NaN in every component when v = 0.
normalized(v) ==
    LET n == Sqrt(v[1] * v[1] + v[2] * v[2] + v[3] * v[3])
    IN  IF n = 0 THEN NaNVec
        ELSE <<RoundDiv(v[1] * DirScale, n), RoundDiv(v[2] * DirScale, n),
               RoundDiv(v[3] * DirScale, n)>>

(* ------------------------------ colours ------------------------------- *)
\* A product of albedos: <<#red, #green, #gray, #light>> exponents of
\* (0.65,0.05,0.05), (0.12,0.45,0.15), (0.93,0.93,0.93) and light_color.
\* A colour is a sum of such products; every factor is positive in each
\* channel, so a colour is (0,0,0) exactly when the sum has no term.
Black == EmptyBag
Mono(m) == SetToBag({m})
White == Mono(<<0, 0, 0, 0>>)
color_red == Mono(<<1, 0, 0, 0>>)
color_green == Mono(<<0, 1, 0, 0>>)
gray == Mono(<<0, 0, 1, 0>>)
light_color == Mono(<<0, 0, 0, 1>>)

MonoMul(m, k) == <<m[1] + k[1], m[2] + k[2], m[3] + k[3], m[4] + k[4]>>

RECURSIVE SumPairs(_, _, _, _)
SumPairs(prs, a, b, m) ==
    IF prs = {} THEN 0
    ELSE LET pr == CHOOSE q \in prs : TRUE
         IN  (IF MonoMul(pr[1], pr[2]) = m THEN a[pr[1]] * b[pr[2]] ELSE 0)
             + SumPairs(prs \ {pr}, a, b, m)

\* component-wise product of two colours
ColorMul(a, b) ==
    LET prs == (DOMAIN a) \X (DOMAIN b)
        ms  == {MonoMul(pr[1], pr[2]) : pr \in prs}
    IN  [m \in ms |-> SumPairs(prs, a, b, m)]

\* component-wise sum of two colours
ColorAdd(a, b) == a (+) b

(* ------------------------------- scene -------------------------------- *)
ray_plane_intersect(ray_o, ray_d, pt_on_plane, norm) ==
    IF IsNaN(ray_d) THEN inf
    ELSE LET denom == Dot(ray_d, norm)
         IN  IF Abs(denom) * EpsInv > DirScale
             THEN RoundDiv(Dot(VSub(pt_on_plane, ray_o), norm) * DirScale, denom)
             ELSE inf

\* the scene with the far wall made a light
PlanesLit ==
    << [pt |-> <<-11000, 0, 0>>, norm |-> <<1000, 0, 0>>,
        color |-> color_red, mat |-> mat_lambertian],
       [pt |-> <<11000, 0, 0>>, norm |-> <<-1000, 0, 0>>,
        color |-> color_green, mat |-> mat_lambertian],
       [pt |-> <<0, 0, 0>>, norm |-> <<0, 1000, 0>>,
        color |-> gray, mat |-> mat_lambertian],
       [pt |-> <<0, 20000, 0>>, norm |-> <<0, -1000, 0>>,
        color |-> gray, mat |-> mat_lambertian],
       [pt |-> <<0, 0, 0>>, norm |-> <<0, 0, 1000>>,
        color |-> gray, mat |-> mat_light] >>

\* The five planes in the order intersect_scene tests them.
Planes ==
    << [pt |-> <<-11000, 0, 0>>, norm |-> <<1000, 0, 0>>,
        color |-> color_red, mat |-> mat_lambertian],
       [pt |-> <<11000, 0, 0>>, norm |-> <<-1000, 0, 0>>,
        color |-> color_green, mat |-> mat_lambertian],
       [pt |-> <<0, 0, 0>>, norm |-> <<0, 1000, 0>>,
        color |-> gray, mat |-> mat_lambertian],
       [pt |-> <<0, 20000, 0>>, norm |-> <<0, -1000, 0>>,
        color |-> gray, mat |-> mat_lambertian],
       [pt |-> <<0, 0, 0>>, norm |-> <<0, 0, 1000>>,
        color |-> gray, mat |-> mat_lambertian] >>

NoHit == [closest |-> inf, normal |-> <<0, 0, 0>>, color |-> Black, mat |-> mat_none]

\* the test without "0 <": a plane behind the origin can win
CloserUnsigned(cur_dist, closest) == cur_dist < closest

\* the test with "<=": a later plane at the same distance wins
CloserOrEqual(cur_dist, closest) == 0 < cur_dist /\ cur_dist <= closest

\* "if 0 < cur_dist < closest": the plane replaces the current hit.
Closer(cur_dist, closest) == 0 < cur_dist /\ cur_dist < closest

TestPlane(hit, pl, ray_o, ray_d) ==
    LET cur_dist == ray_plane_intersect(ray_o, ray_d, pl.pt, pl.norm)
    IN  IF Closer(cur_dist, hit.closest)
        THEN [closest |-> cur_dist, normal |-> pl.norm, color |-> pl.color, mat |-> pl.mat]
        ELSE hit

intersect_scene(ray_o, ray_d) ==
    LET h1 == TestPlane(NoHit, Planes[1], ray_o, ray_d)
        h2 == TestPlane(h1, Planes[2], ray_o, ray_d)
        h3 == TestPlane(h2, Planes[3], ray_o, ray_d)
        h4 == TestPlane(h3, Planes[4], ray_o, ray_d)
    IN  TestPlane(h4, Planes[5], ray_o, ray_d)

(* ------------------------------ sampler ------------------------------- *)
\* ti.random() * 2 - 1.0 for the draw k/2, in units of 1/DirScale
Coord(k) == RoundDiv(2 * DirScale * k, 2) - DirScale

\* "if p.dot(p) <= 1.0: break"
InUnitSphere(p) == Dot(p, p) <= DirScale

sample_ray_dir(p, normal) == normalized(VAdd(p, normal))

(* ------------------------------- state -------------------------------- *)
VARIABLES
    i,             \* the frame loop's index (line 132)
    pc,            \* where the main script is
    color_buffer,  \* the accumulation field, one colour per pixel
    n_added,       \* per pixel, how many times line 128 has run on its cell
    img,           \* the image last handed to gui.set_image
    task,          \* per pixel, the locals of its render() iteration
    depth_limit,   \* the value of max_ray_depth the program was started with
    query          \* the ray a scene query is made with, and its answer

vars == <<i, pc, color_buffer, n_added, img, task, depth_limit, query>>

\* the cells of color_buffer, "for u, v in color_buffer"
Pixels == (0 .. res[1] - 1) \X (0 .. res[2] - 1)

\* a pixel whose iteration of the parallel loop has not started, or is over
Idle(at) ==
    [pc |-> at, ray_pos |-> camera_pos, ray_dir |-> <<0, 0, 0>>,
     px_color |-> Black, throughput |-> White, depth |-> 0,
     closest |-> inf, hit_normal |-> <<0, 0, 0>>, hit_color |-> Black,
     mat |-> mat_none, hit_pos |-> <<0, 0, 0>>,
     \* history: the calls of intersect_scene, the colours of the LAMBERTIAN
     \* hits, and how the loop was left
     calls |-> 0, hits |-> << >>, outcome |-> "none"]

NoQuery == [asked |-> TRUE]

Init ==
    /\ i = 0
    /\ pc = "render"
    /\ color_buffer = [px \in Pixels |-> Black]
    /\ n_added = [px \in Pixels |-> 0]
    /\ img = [shown |-> FALSE]
    /\ task = [px \in Pixels |-> Idle("done")]
    /\ depth_limit = max_ray_depth
    /\ query = NoQuery

(* ------------------------------ render() ------------------------------ *)
\* lines 104-109: the jittered pinhole direction of pixel (u, v), for the
\* draws k1/2 and k2/2; aspect_ratio = res[0] / res[1]
primary_dir(u, v, k1, k2) ==
    normalized(<<RoundDiv(2 * fov * (2 * u + k1), 2 * res[2])
                     - RoundDiv(fov * res[1], res[2]),
                 RoundDiv(2 * fov * (2 * v + k2), 2 * res[2]) - fov,
                 0 - DirScale>>)

\* line 122: ray_pos + closest * ray_dir
hit_point(ray_pos, closest, ray_dir) ==
    <<ray_pos[1] + RoundDiv(closest * ray_dir[1], DirScale),
      ray_pos[2] + RoundDiv(closest * ray_dir[2], DirScale),
      ray_pos[3] + RoundDiv(closest * ray_dir[3], DirScale)>>

\* line 125: hit_pos + eps * ray_dir
offset_pos(hit_pos, ray_dir) ==
    IF IsNaN(ray_dir) THEN NaNVec
    ELSE <<hit_pos[1] + RoundDiv(ray_dir[1] * PosScale, EpsInv * DirScale),
           hit_pos[2] + RoundDiv(ray_dir[2] * PosScale, EpsInv * DirScale),
           hit_pos[3] + RoundDiv(ray_dir[3] * PosScale, EpsInv * DirScale)>>

\* "for i in range(...): render()": the kernel starts one iteration per pixel
Launch ==
    /\ pc = "render"
    /\ i < MaxFrames
    /\ pc' = "kernel"
    /\ task' = [px \in Pixels |-> Idle("start")]
    /\ UNCHANGED <<i, color_buffer, n_added, img, depth_limit, query>>

\* lines 103-113: the locals of pixel px before its loop, for two draws
start_task(px, k1, k2) ==
    [Idle("loop") EXCEPT !.ray_pos = camera_pos,
                         !.ray_dir = primary_dir(px[1], px[2], k1, k2),
                         !.px_color = Black,
                         !.throughput = White,
                         !.depth = 0]

TaskStart(px) ==
    /\ pc = "kernel"
    /\ task[px].pc = "start"
    /\ \E k1, k2 \in RandVals :
          task' = [task EXCEPT ![px] = start_task(px, k1, k2)]
    /\ UNCHANGED <<i, pc, color_buffer, n_added, img, depth_limit, query>>

\* the loop test of line 115 failing: the depth bound is exhausted
TaskExhaust(px) ==
    /\ pc = "kernel"
    /\ task[px].pc = "loop"
    /\ ~(task[px].depth < depth_limit)
    /\ task' = [task EXCEPT ![px] = [@ EXCEPT !.pc = "write", !.outcome = "depth"]]
    /\ UNCHANGED <<i, pc, color_buffer, n_added, img, depth_limit, query>>

\* the loop pass with an escaped ray adding its throughput
intersect_step_sky(t) ==
    LET hit == intersect_scene(t.ray_pos, t.ray_dir)
        seen == [t EXCEPT !.closest = hit.closest, !.hit_normal = hit.normal,
                          !.hit_color = hit.color, !.mat = hit.mat,
                          !.calls = @ + 1]
    IN  IF hit.mat = mat_none
        THEN [seen EXCEPT !.pc = "write", !.outcome = "escaped",
                          !.px_color = t.throughput]
        ELSE IF hit.mat = mat_light
        THEN [seen EXCEPT !.pc = "write", !.outcome = "light",
                          !.px_color = ColorMul(t.throughput, light_color)]
        ELSE [seen EXCEPT !.pc = "sample",
                          !.hit_pos = hit_point(t.ray_pos, hit.closest, t.ray_dir),
                          !.depth = @ + 1,
                          !.hits = Append(@, hit.color)]

\* the loop pass without "depth += 1"
intersect_step_flat(t) ==
    LET hit == intersect_scene(t.ray_pos, t.ray_dir)
        seen == [t EXCEPT !.closest = hit.closest, !.hit_normal = hit.normal,
                          !.hit_color = hit.color, !.mat = hit.mat,
                          !.calls = @ + 1]
    IN  IF hit.mat = mat_none
        THEN [seen EXCEPT !.pc = "write", !.outcome = "escaped"]
        ELSE IF hit.mat = mat_light
        THEN [seen EXCEPT !.pc = "write", !.outcome = "light",
                          !.px_color = ColorMul(t.throughput, light_color)]
        ELSE [seen EXCEPT !.pc = "sample",
                          !.hit_pos = hit_point(t.ray_pos, hit.closest, t.ray_dir),
                          !.hits = Append(@, hit.color)]

\* lines 115-123: one pass of the loop up to the call of sample_ray_dir
intersect_step(t) ==
    LET hit == intersect_scene(t.ray_pos, t.ray_dir)
        seen == [t EXCEPT !.closest = hit.closest, !.hit_normal = hit.normal,
                          !.hit_color = hit.color, !.mat = hit.mat,
                          !.calls = @ + 1]
    IN  IF hit.mat = mat_none
        THEN [seen EXCEPT !.pc = "write", !.outcome = "escaped"]
        ELSE IF hit.mat = mat_light
        THEN [seen EXCEPT !.pc = "write", !.outcome = "light",
                          !.px_color = ColorMul(t.throughput, light_color)]
        ELSE [seen EXCEPT !.pc = "sample",
                          !.hit_pos = hit_point(t.ray_pos, hit.closest, t.ray_dir),
                          !.depth = @ + 1,
                          !.hits = Append(@, hit.color)]

TaskIntersect(px) ==
    /\ pc = "kernel"
    /\ task[px].pc = "loop"
    /\ task[px].depth < depth_limit
    /\ task' = [task EXCEPT ![px] = intersect_step(@)]
    /\ UNCHANGED <<i, pc, color_buffer, n_added, img, depth_limit, query>>

\* lines 124-126 with one accepted draw p of random_in_unit_sphere
bounce_step(t, p) ==
    LET new_dir == sample_ray_dir(p, t.hit_normal)
    IN  [t EXCEPT !.pc = "loop",
                  !.ray_dir = new_dir,
                  !.ray_pos = offset_pos(t.hit_pos, new_dir),
                  !.throughput = ColorMul(@, t.hit_color)]

\* one pass of the rejection loop (lines 87-91): three draws, then either the
\* break and lines 124-126, or another pass
TaskSample(px) ==
    /\ pc = "kernel"
    /\ task[px].pc = "sample"
    /\ \E k1, k2, k3 \in RandVals :
          LET p == <<Coord(k1), Coord(k2), Coord(k3)>>
          IN  task' = [task EXCEPT ![px] =
                          IF InUnitSphere(p) THEN bounce_step(@, p) ELSE @]
    /\ UNCHANGED <<i, pc, color_buffer, n_added, img, depth_limit, query>>

\* the points random_in_unit_sphere can return
AcceptedPoints ==
    {p \in {<<Coord(k1), Coord(k2), Coord(k3)>> : k1, k2, k3 \in RandVals} :
        InUnitSphere(p)}

\* one more statement of lines 115-126 for every unfinished path of a set
advance(ts, limit) ==
    {intersect_step(t) : t \in {x \in ts : x.pc = "loop" /\ x.depth < limit}}
    \cup {bounce_step(t, p) : t \in {x \in ts : x.pc = "sample"}, p \in AcceptedPoints}

\* a path is over at line 128: after a break, or with the loop test failing
finished(t, limit) == t.pc = "write" \/ (t.pc = "loop" /\ ~(t.depth < limit))

\* lines 103-126 run to line 128: the values px_color can have there, over
\* every draw the sampler returns with
traced_colors(px, limit) ==
    LET steps == IF limit > 0 THEN 2 * limit ELSE 0
        \* the locals a path can have after at most n statements
        run[n \in 0 .. steps] ==
            IF n = 0
            THEN {start_task(px, k1, k2) : k1, k2 \in RandVals}
            ELSE UNION {prev \cup advance(prev, limit) : prev \in {run[n - 1]}}
    IN  {t.px_color : t \in {x \in run[steps] : finished(x, limit)}}

\* traced_colors of every pixel for max_ray_depth, computed once
PathColors == {<<px, traced_colors(px, max_ray_depth)>> : px \in Pixels}

path_colors(px, limit) ==
    IF limit = max_ray_depth THEN (CHOOSE e \in PathColors : e[1] = px)[2]
    ELSE traced_colors(px, limit)

\* lines 103-126 as one step of the pixel's iteration
TaskTrace(px) ==
    /\ pc = "kernel"
    /\ task[px].pc = "start"
    /\ \E c \in path_colors(px, depth_limit) :
          task' = [task EXCEPT ![px] = [Idle("write") EXCEPT !.px_color = c]]
    /\ UNCHANGED <<i, pc, color_buffer, n_added, img, depth_limit, query>>

\* line 128: the cell the iteration of pixel px adds to
written_cell(px) == px

TaskWrite(px) ==
    /\ pc = "kernel"
    /\ task[px].pc = "write"
    /\ color_buffer' = [color_buffer EXCEPT
                           ![written_cell(px)] = ColorAdd(@, task[px].px_color)]
    /\ n_added' = [n_added EXCEPT ![written_cell(px)] = @ + 1]
    /\ task' = [task EXCEPT ![px] = Idle("done")]
    /\ UNCHANGED <<i, pc, img, depth_limit, query>>

\* render() returning as soon as one iteration is over
kernel_over_any(tasks) == \E px \in Pixels : tasks[px].pc = "done"

\* render() returns once every iteration of its loop is over
kernel_over(tasks) == \A px \in Pixels : tasks[px].pc = "done"

Join ==
    /\ pc = "kernel"
    /\ kernel_over(task)
    /\ pc' = "display"
    /\ UNCHANGED <<i, color_buffer, n_added, img, task, depth_limit, query>>

(* ----------------------------- frame loop ----------------------------- *)
\* a colour divided by a positive number is (0,0,0) exactly when it is
\* (0,0,0), so img.mean() = 0 exactly when every cell is Black
mean_is_zero(buf) == \A px \in Pixels : buf[px] = Black

\* the divisor taken as the loop index
sample_count_index(frame) == frame

\* line 134: the buffer is multiplied by 1 / (i + 1)
sample_count(frame) == frame + 1

\* lines 134-137: the image is color_buffer / samples, then divided by its
\* mean (0/0 = NaN in every pixel when the mean is 0), scaled and rooted.
\* counts is history: how many additions each cell of the snapshot holds.
Display ==
    /\ pc = "display"
    /\ img' = [shown |-> TRUE,
               samples |-> sample_count(i),
               sums |-> color_buffer,
               counts |-> n_added,
               nan |-> mean_is_zero(color_buffer)]
    /\ i' = i + 1
    /\ pc' = "render"
    /\ UNCHANGED <<color_buffer, n_added, task, depth_limit, query>>

\* line 139, after the last frame
Quit ==
    /\ pc = "render"
    /\ ~(i < MaxFrames)
    /\ pc' = "quit"
    /\ UNCHANGED <<i, color_buffer, n_added, img, task, depth_limit, query>>

(* --------------------------- specifications -------------------------- *)
\* The program, frame after frame; the iterations of one kernel run in any
\* order, each as its local part (TaskTrace) and its write (TaskWrite).
Next ==
    \/ Launch
    \/ \E px \in Pixels : TaskTrace(px)
    \/ \E px \in Pixels : TaskWrite(px)
    \/ Join
    \/ Display
    \/ Quit

Spec == Init /\ [][Next]_vars

\* One iteration of the first kernel, statement by statement.  The
\* iterations share nothing before line 128, so each is followed alone.
Alone(px) == \A q \in Pixels \ {px} : task[q].pc = "start"

NextPath ==
    \/ Launch
    \/ \E px \in Pixels : Alone(px) /\ TaskStart(px)
    \/ \E px \in Pixels : Alone(px) /\ TaskExhaust(px)
    \/ \E px \in Pixels : Alone(px) /\ TaskIntersect(px)
    \/ \E px \in Pixels : Alone(px) /\ TaskSample(px)
    \/ \E px \in Pixels : Alone(px) /\ TaskWrite(px)

SpecPath == Init /\ [][NextPath]_vars

\* The program started with each value of max_ray_depth (line 12) in
\* ConfigDepths, the shipped one and two non-positive ones.
ConfigDepths == {0 - 1, 0, max_ray_depth}

InitConfig ==
    /\ i = 0
    /\ pc = "render"
    /\ color_buffer = [px \in Pixels |-> Black]
    /\ n_added = [px \in Pixels |-> 0]
    /\ img = [shown |-> FALSE]
    /\ task = [px \in Pixels |-> Idle("done")]
    /\ depth_limit \in ConfigDepths
    /\ query = NoQuery

SpecConfig == InitConfig /\ [][Next]_vars

\* intersect_scene applied to rays from QueryOrigins along QueryDirs.
QueryOrigins ==
    {camera_pos, <<0, 10000, 10000>>, <<0, 11000, 5000>>, <<-11000, 10000, 10000>>,
     <<11000, 20000, 0>>, <<0, 0, 0>>, <<5000, 5000, 5000>>, <<-20000, 10000, -5000>>}

QueryDirs ==
    {normalized(<<a, b, c>>) : a, b, c \in {0 - 1000, 0 - 1, 0, 1000}} \ {NaNVec}

InitScene ==
    /\ i = 0
    /\ pc = "render"
    /\ color_buffer = [px \in Pixels |-> Black]
    /\ n_added = [px \in Pixels |-> 0]
    /\ img = [shown |-> FALSE]
    /\ task = [px \in Pixels |-> Idle("done")]
    /\ depth_limit = max_ray_depth
    /\ \E o \in QueryOrigins, d \in QueryDirs :
          query = [asked |-> FALSE, ray_o |-> o, ray_d |-> d, hit |-> NoHit]

Ask ==
    /\ ~query.asked
    /\ query' = [query EXCEPT !.asked = TRUE,
                              !.hit = intersect_scene(query.ray_o, query.ray_d)]
    /\ UNCHANGED <<i, pc, color_buffer, n_added, img, task, depth_limit>>

NextScene == Ask

SpecScene == InitScene /\ [][NextScene]_vars

(* ------------------------------- claims ------------------------------- *)
\* C1.  The divisor of the display step is the number of finished render
\* passes: when render() has returned for the N-th time every cell holds
\* exactly N additions (N = i + 1 then), the image shown after it was
\* divided by N = i >= 1, and between frames every cell holds i additions.
C1_SampleCountIsFrameCount ==
    /\ pc = "display" => \A px \in Pixels : n_added[px] = i + 1
    /\ pc \in {"render", "quit"} => \A px \in Pixels : n_added[px] = i
    /\ img.shown => /\ img.samples = i
                    /\ img.samples >= 1
                    /\ \A px \in Pixels : img.counts[px] = img.samples

\* the second frame has been shown
C1_Witness == img.shown /\ img.samples = 2 /\ pc = "render"

\* C7.  In a kernel each cell is added to once, by its own pixel's
\* iteration; outside a kernel no iteration is under way; and every cell of
\* a displayed snapshot holds the same number of samples.
C7_OneWriterAndBarrier ==
    /\ pc = "kernel" =>
          \A px \in Pixels :
             n_added[px] = i + (IF task[px].pc = "done" THEN 1 ELSE 0)
    /\ pc # "kernel" => \A px \in Pixels : task[px].pc = "done"
    /\ img.shown => \A px, q \in Pixels : img.counts[px] = img.counts[q]

\* in the second kernel one iteration has written, one is about to, and one
\* has not started
C7_Witness ==
    /\ pc = "kernel" /\ i = 1 /\ img.shown
    /\ \E px, q, r \in Pixels :
          task[px].pc = "done" /\ task[q].pc = "write" /\ task[r].pc = "start"

\* C5.  With the box's five LAMBERTIAN planes every path adds (0,0,0):
\* every cell of color_buffer, every value about to be added and every
\* displayed sum is (0,0,0), whatever the number of frames.
C5_BoxStaysBlack ==
    /\ \A px \in Pixels : color_buffer[px] = Black /\ task[px].px_color = Black
    /\ img.shown => \A px \in Pixels : img.sums[px] = Black

\* the last frame is over and every cell has been added to in each frame
C5_Witness ==
    /\ pc = "quit"
    /\ \A px \in Pixels : n_added[px] = MaxFrames /\ color_buffer[px] = Black

\* C10.  At every display step the sample count is >= 1 and the mean the
\* image is divided by is not zero.
C10_DivisorsNonZero == img.shown => img.samples >= 1 /\ ~img.nan

\* C8.  Started with a non-positive max_ray_depth the program renders
\* nothing: no kernel runs, no cell is added to, no image is shown.
C8_MalformedConfigRendersNothing ==
    depth_limit <= 0 =>
        /\ pc \notin {"kernel", "display"}
        /\ ~img.shown
        /\ \A px \in Pixels : n_added[px] = 0

RECURSIVE Product(_)
Product(colors) ==
    IF colors = << >> THEN White
    ELSE ColorMul(Product(SubSeq(colors, 1, Len(colors) - 1)), colors[Len(colors)])

\* C3.  throughput is the product of the colours of the LAMBERTIAN hits of
\* the path so far (at line 124-126 the last hit is not multiplied in yet);
\* the value added at line 128 is throughput * light_color exactly when the
\* path ended on a LIGHT hit, and (0,0,0) when it escaped or ran out of
\* depth.
C3_SampleIsThroughputTimesLight ==
    \A px \in Pixels :
        LET t == task[px]
        IN  /\ t.pc \in {"loop", "write"} => t.throughput = Product(t.hits)
            /\ t.pc = "sample" =>
                  t.throughput = Product(SubSeq(t.hits, 1, Len(t.hits) - 1))
            /\ t.pc = "write" =>
                  /\ (t.outcome = "light")
                        <=> (t.px_color = ColorMul(t.throughput, light_color))
                  /\ t.outcome \in {"escaped", "depth"} => t.px_color = Black

\* a path that bounced at least once and then escaped is at line 128
C3_Witness ==
    \E px \in Pixels :
        /\ task[px].pc = "write"
        /\ task[px].outcome = "escaped"
        /\ Len(task[px].hits) >= 1
        /\ task[px].throughput # White

\* C4.  depth counts the LAMBERTIAN hits; intersect_scene is called at most
\* max_ray_depth times, once per hit plus once for the call that ended the
\* path on NONE or LIGHT; the loop is left in exactly one way, with depth =
\* max_ray_depth when it is left by the loop test; a path that left the loop
\* takes no further loop step, and a path at the loop test can always step.
C4_BounceLoopBounded ==
    \A px \in Pixels :
        LET t == task[px]
        IN  /\ t.depth \in 0 .. max_ray_depth
            /\ t.depth = Len(t.hits)
            /\ t.calls <= max_ray_depth
            /\ t.calls = t.depth + (IF t.outcome \in {"escaped", "light"} THEN 1 ELSE 0)
            /\ (t.pc = "write") <=> (t.outcome # "none")
            /\ t.outcome = "depth" => t.depth = max_ray_depth
            /\ t.outcome = "escaped" => t.mat = mat_none
            /\ t.outcome = "light" => t.mat = mat_light
            /\ t.pc = "write" =>
                  ~ENABLED (TaskStart(px) \/ TaskIntersect(px)
                            \/ TaskSample(px) \/ TaskExhaust(px))
            /\ (pc = "kernel" /\ t.pc = "loop") =>
                  ENABLED (TaskIntersect(px) \/ TaskExhaust(px))

\* a path left the loop by the loop test after max_ray_depth calls
C4_Witness ==
    \E px \in Pixels :
        /\ task[px].outcome = "depth"
        /\ task[px].calls = max_ray_depth
        /\ task[px].pc = "write"

\* the length of a direction is 1 up to the rounding of its components
UnitLength(v) ==
    Abs(Sqrt(v[1] * v[1] + v[2] * v[2] + v[3] * v[3]) - DirScale) <= 2

\* C6.  Every direction sample_ray_dir returns is a vector of length 1:
\* the normalized sum is never the zero vector (no NaN).
C6_BounceDirectionIsUnit ==
    \A px \in Pixels :
        (task[px].pc = "loop" /\ task[px].depth >= 1) =>
            IF IsNaN(task[px].ray_dir) THEN FALSE ELSE UnitLength(task[px].ray_dir)

\* the distance ray_plane_intersect computes for the k-th plane alone
PlaneDist(k) ==
    ray_plane_intersect(query.ray_o, query.ray_d, Planes[k].pt, Planes[k].norm)

\* the planes the ray hits in front of its origin
HitPlanes == {k \in 1 .. 5 : 0 < PlaneDist(k) /\ PlaneDist(k) < inf}

\* C2.  intersect_scene returns the smallest of the positive distances
\* ray_plane_intersect computes for the five planes (a distance is one below
\* the miss value inf), with the normal, colour and material of a plane at
\* that distance; with no such plane it returns the miss (inf, NONE); it
\* never returns a distance <= 0.
C2_ClosestPositiveHit ==
    query.asked =>
        /\ query.hit.closest > 0
        /\ IF HitPlanes = {} THEN query.hit = NoHit
           ELSE /\ \A k \in HitPlanes : query.hit.closest <= PlaneDist(k)
                /\ \E k \in HitPlanes :
                      /\ PlaneDist(k) = query.hit.closest
                      /\ query.hit.normal = Planes[k].norm
                      /\ query.hit.color = Planes[k].color
                      /\ query.hit.mat = Planes[k].mat

\* a ray with planes behind it, a nearest plane and farther ones
C2_Witness ==
    /\ query.asked
    /\ \E k \in 1 .. 5 : PlaneDist(k) < 0
    /\ \E k, l \in HitPlanes : PlaneDist(k) < PlaneDist(l)
    /\ query.hit.mat = mat_lambertian

\* the planes at the smallest positive distance
Nearest == {k \in HitPlanes : \A l \in HitPlanes : PlaneDist(k) <= PlaneDist(l)}

\* C9.  When several planes are at the smallest positive distance, the
\* answer carries the normal, colour and material of the first of them in
\* the order left, right, bottom, top, far.
C9_TieGoesToFirstPlane ==
    (query.asked /\ HitPlanes # {}) =>
        LET first == CHOOSE k \in Nearest : \A l \in Nearest : k <= l
        IN  /\ query.hit.closest = PlaneDist(first)
            /\ query.hit.normal = Planes[first].norm
            /\ query.hit.color = Planes[first].color
            /\ query.hit.mat = Planes[first].mat

\* a ray into the edge of the left wall and the floor: two planes, of
\* different colours, at the same smallest distance
C9_Witness ==
    /\ query.asked
    /\ 1 \in Nearest /\ 3 \in Nearest
    /\ query.hit.color = color_red

====
